---- MODULE Spec2Model ----
(***************************************************************************)
(* Lifecycle of the multimodal vision encoder (AddonVisionModel) and of    *)
(* the process-wide llama backend (addonInit / addonDispose and their      *)
(* async workers), modelled from src/llama/addon.                          *)
(***************************************************************************)
EXTENDS Integers, Sequences, FiniteSets, TLC

(***************************************************************************)
(* Bounds of the model.                                                    *)
(***************************************************************************)
\* clip_init calls one model instance may make
MaxClipInit == 3
\* dispose() calls one model instance may receive
MaxDisposeCalls == 3
\* init() and dispose() calls the backend manager may receive
MaxBackendCalls == 3

\* the null pointer
NULL == 0

\* image sizes clip_get_image_size may report (<= 0: no usable answer)
ImageSizes == {0, 336}

\* arguments a caller may hand to processImage: how many, whether they have
\* the types ProcessImage checks, the byte length of the buffer, the sizes
ProcessImageArgs ==
    [argc : 2..3, typesOk : BOOLEAN, len : {0, 12}, width : {0, 2}, height : {2}]

\* what the CLIP backend may answer during one processImageData call; a
\* question the call never gets to ask (it failed before) has one answer
BackendAnswers ==
    {be \in [u8Init : BOOLEAN, batchInit : BOOLEAN, preprocess : BOOLEAN,
             nImages : 0..1, firstImage : BOOLEAN,
             embed_dim : {0, 2}, n_tokens_out : {0, 3}, encode : BOOLEAN] :
        /\ ~be.u8Init => ~be.batchInit
        /\ ~be.batchInit => ~be.preprocess
        /\ ~be.preprocess => be.nImages = 0
        /\ be.nImages = 0 => ~be.firstImage
        /\ ~be.firstImage => be.embed_dim = 0 /\ be.n_tokens_out = 0
        /\ (be.embed_dim = 0 \/ be.n_tokens_out = 0) => ~be.encode}

\* the largest number of pixels of an image handed to the conversion
MaxPixels == 4

\* pixel buffers of len bytes: one value throughout, or values that differ
\* from byte to byte (uint8_t: they wrap at 256)
Buffers(len) ==
    {[i \in 1..len |-> (base + step * (i - 1)) % 256] :
        base \in {0, 200}, step \in {0, 1, 37}}

\* what a read past the end of a buffer may yield
JunkBytes == {0, 255}

\* channel counts a caller may declare
Channels == 1..5

\* the images a caller may hand over: width * height * channels bytes
PixelInputs ==
    UNION {[data : Buffers(w * h * c), width : {w}, height : {h}, channels : {c}] :
             <<w, h, c>> \in {d \in (1..MaxPixels) \X (1..MaxPixels) \X Channels :
                                d[1] * d[2] <= MaxPixels}}

\* no image handed over yet, and no image built yet
NoPixels == [data |-> <<>>, width |-> 0, height |-> 0, channels |-> 0]
NoImage ==
    [op |-> "none", ok |-> FALSE, pixels |-> <<>>, nx |-> 0, ny |-> 0,
     oob |-> FALSE, crashed |-> FALSE]

(***************************************************************************)
(* Messages of the errors the addon raises.                                *)
(***************************************************************************)
ErrDisposed == "Vision model is disposed"
ErrNotLoaded == "Vision model not loaded"
ErrArgCount == "Expected 3 arguments: imageData, width, height"
ErrArgTypes == "Invalid argument types"
ErrLoadFailed == "Failed to load vision model"
ErrLoadImage == "Image processing failed: Failed to load image data"
ErrPreprocess == "Image processing failed: Failed to preprocess image"
ErrNoImages == "Image processing failed: No preprocessed images available"
ErrFirstImage == "Image processing failed: Failed to access preprocessed image"
ErrEncode == "Image processing failed: Failed to encode image"
ErrNoClip == "Image processing failed: CLIP support not available - compile with LLAMA_CLIP_AVAILABLE"
ErrBackendThrew == "exception thrown by clip_init"

VARIABLES
    \* ---- AddonVisionModel -------------------------------------------
    vision,          \* the object's fields: clip_context, visionModelLoaded, disposed, visionCaps
    clipAvailable,   \* whether the build defines LLAMA_CLIP_AVAILABLE
    destroyed,       \* the destructor has run
    nextHandle,      \* the last native context handle clip_init handed out
    created,         \* handles clip_init has handed out
    loadedCtx,       \* handles a successful load stored in clip_context
    freedByDispose,  \* handle -> clip_free calls made on it by dispose()
    freedByLoad,     \* handle -> clip_free calls made on it by loadVisionModel()
    clipInitCalls,   \* clip_init calls made so far
    disposeCalls,    \* dispose() calls received so far
    imageSize,       \* what clip_get_image_size last answered (0: not asked yet)
    vLast,           \* what the last call on the model did and returned
    \* ---- the llama backend (addon.cpp) ------------------------------
    backendInitialized,  \* the global flag
    backendDisposed,     \* the global flag
    calls,           \* the init()/dispose() calls made, in order, with their promises
    workers,         \* the async workers queued, in order
    finalized,       \* the module finalizer addonFreeLlamaBackend has run
    backendInitCalls,   \* llama_backend_init calls made
    backendInitDone,    \* llama_backend_init calls that returned
    backendFreeCalls,   \* llama_backend_free calls made
    disposedWrites,  \* writes of true to backendDisposed
    freeChecks,      \* times a disposal path tested backendInitialized to free the backend
    \* ---- the pixel conversion of AddonVisionModel -------------------
    px,              \* the caller's image: data, width, height, channels
    pxOut,           \* the image built from it and handed to the backend
    \* ---- AddonAudioModel --------------------------------------------
    audio,           \* the object's fields
    aLast            \* what the last call on the audio model did and returned

visionVars == <<vision, clipAvailable, destroyed, nextHandle, created, loadedCtx,
                freedByDispose, freedByLoad, clipInitCalls, disposeCalls, imageSize,
                vLast>>

backendVars == <<backendInitialized, backendDisposed, calls, workers, finalized,
                 backendInitCalls, backendInitDone, backendFreeCalls,
                 disposedWrites, freeChecks>>

pixelVars == <<px, pxOut>>

audioVars == <<audio, aLast>>

vars == <<visionVars, backendVars, pixelVars, audioVars>>

\* what a call on the vision model, and what a step of the backend manager,
\* leaves alone
otherThanVision == <<backendVars, pixelVars, audioVars>>
otherThanBackend == <<visionVars, pixelVars, audioVars>>

Handles == 1..(2 * (MaxClipInit + 1))

(***************************************************************************)
(* AddonVisionModel                                                        *)
(***************************************************************************)

\* VisionCapabilities as the member initializers of the header leave it
HeaderVisionCaps ==
    [maxImages |-> 1,
     supportedFormats |-> {"image/jpeg", "image/png", "image/webp"},
     maxResolution |-> [width |-> 1344, height |-> 1344],
     supportsImageGeneration |-> FALSE]

\* detectVisionCapabilities() that never asks the backend
detectVisionCapabilities_IgnoresBackend(self, avail, size) ==
    [maxImages |-> 4,
     supportedFormats |-> {"image/jpeg", "image/png", "image/webp", "image/bmp"},
     maxResolution |-> [width |-> 1344, height |-> 1344],
     supportsImageGeneration |-> FALSE]

\* detectVisionCapabilities(): size is clip_get_image_size's answer, asked
\* only in a CLIP build with a context
detectVisionCapabilities(self, avail, size) ==
    [maxImages |-> 4,
     supportedFormats |-> {"image/jpeg", "image/png", "image/webp", "image/bmp"},
     maxResolution |->
        IF avail /\ self.clip_context # NULL /\ size > 0
        THEN [width |-> size, height |-> size]
        ELSE [width |-> 1344, height |-> 1344],
     supportsImageGeneration |-> FALSE]

\* the object after its constructor ran with valid arguments
ConstructedVision(avail) ==
    LET fields == [clip_context |-> NULL, visionModelLoaded |-> FALSE,
                   disposed |-> FALSE, visionCaps |-> HeaderVisionCaps]
    IN [fields EXCEPT !.visionCaps = detectVisionCapabilities(fields, avail, 0)]

\* dispose() that forgets to clear clip_context
dispose_KeepsContext(self, avail) ==
    IF self.disposed
    THEN [self |-> self, freed |-> <<>>]
    ELSE [self |-> [self EXCEPT !.visionModelLoaded = FALSE, !.disposed = TRUE],
          freed |-> IF self.clip_context # NULL /\ avail
                    THEN <<self.clip_context>> ELSE <<>>]

\* dispose() that clears clip_context without handing it to clip_free
dispose_NoFree(self, avail) ==
    IF self.disposed
    THEN [self |-> self, freed |-> <<>>]
    ELSE [self |-> [self EXCEPT !.clip_context = NULL,
                                !.visionModelLoaded = FALSE,
                                !.disposed = TRUE],
          freed |-> <<>>]

\* dispose() that forgets to reset visionModelLoaded
dispose_KeepsLoaded(self, avail) ==
    IF self.disposed
    THEN [self |-> self, freed |-> <<>>]
    ELSE [self |-> [self EXCEPT !.clip_context = NULL, !.disposed = TRUE],
          freed |-> IF self.clip_context # NULL /\ avail
                    THEN <<self.clip_context>> ELSE <<>>]

\* dispose(): the object afterwards, and the handles handed to clip_free
dispose(self, avail) ==
    IF self.disposed
    THEN [self |-> self, freed |-> <<>>]
    ELSE [self |-> [self EXCEPT !.clip_context = NULL,
                                !.visionModelLoaded = FALSE,
                                !.disposed = TRUE],
          freed |-> IF self.clip_context # NULL /\ avail
                    THEN <<self.clip_context>> ELSE <<>>]

\* loadVisionModel() without its early return for a loaded model
loadVisionModel_NoLoadedCheck(self, avail, res, size) ==
    IF ~avail
    THEN [self |-> self, ok |-> FALSE, freed |-> <<>>, backend |-> {}]
    ELSE IF res.ctx_v = NULL
    THEN [self |-> self, ok |-> FALSE,
          freed |-> IF res.ctx_a # NULL THEN <<res.ctx_a>> ELSE <<>>,
          backend |-> {"clip_init"} \cup
                      (IF res.ctx_a # NULL THEN {"clip_free"} ELSE {})]
    ELSE LET stored == [self EXCEPT !.clip_context = res.ctx_v,
                                    !.visionModelLoaded = TRUE]
         IN [self |-> [stored EXCEPT
                         !.visionCaps = detectVisionCapabilities(stored, avail, size)],
             ok |-> TRUE,
             freed |-> IF res.ctx_a # NULL /\ res.ctx_a # res.ctx_v
                       THEN <<res.ctx_a>> ELSE <<>>,
             backend |-> {"clip_init", "clip_get_image_size"} \cup
                         (IF res.ctx_a # NULL /\ res.ctx_a # res.ctx_v
                          THEN {"clip_free"} ELSE {})]

\* loadVisionModel() that keeps the audio context when no vision context
\* was created
loadVisionModel_KeepsAudioCtx(self, avail, res, size) ==
    IF self.visionModelLoaded
    THEN [self |-> self, ok |-> TRUE, freed |-> <<>>, backend |-> {}]
    ELSE IF ~avail
    THEN [self |-> self, ok |-> FALSE, freed |-> <<>>, backend |-> {}]
    ELSE IF res.ctx_v = NULL
    THEN [self |-> self, ok |-> FALSE, freed |-> <<>>, backend |-> {"clip_init"}]
    ELSE LET stored == [self EXCEPT !.clip_context = res.ctx_v,
                                    !.visionModelLoaded = TRUE]
         IN [self |-> [stored EXCEPT
                         !.visionCaps = detectVisionCapabilities(stored, avail, size)],
             ok |-> TRUE,
             freed |-> IF res.ctx_a # NULL /\ res.ctx_a # res.ctx_v
                       THEN <<res.ctx_a>> ELSE <<>>,
             backend |-> {"clip_init", "clip_get_image_size"} \cup
                         (IF res.ctx_a # NULL /\ res.ctx_a # res.ctx_v
                          THEN {"clip_free"} ELSE {})]

\* loadVisionModel() that reports success in a build without CLIP
loadVisionModel_UnavailableSucceeds(self, avail, res, size) ==
    IF self.visionModelLoaded
    THEN [self |-> self, ok |-> TRUE, freed |-> <<>>, backend |-> {}]
    ELSE IF ~avail
    THEN [self |-> [self EXCEPT !.visionModelLoaded = TRUE], ok |-> TRUE,
          freed |-> <<>>, backend |-> {}]
    ELSE IF res.ctx_v = NULL
    THEN [self |-> self, ok |-> FALSE,
          freed |-> IF res.ctx_a # NULL THEN <<res.ctx_a>> ELSE <<>>,
          backend |-> {"clip_init"} \cup
                      (IF res.ctx_a # NULL THEN {"clip_free"} ELSE {})]
    ELSE LET stored == [self EXCEPT !.clip_context = res.ctx_v,
                                    !.visionModelLoaded = TRUE]
         IN [self |-> [stored EXCEPT
                         !.visionCaps = detectVisionCapabilities(stored, avail, size)],
             ok |-> TRUE,
             freed |-> IF res.ctx_a # NULL /\ res.ctx_a # res.ctx_v
                       THEN <<res.ctx_a>> ELSE <<>>,
             backend |-> {"clip_init", "clip_get_image_size"} \cup
                         (IF res.ctx_a # NULL /\ res.ctx_a # res.ctx_v
                          THEN {"clip_free"} ELSE {})]

\* loadVisionModel(): res is what clip_init returned (ctx_v, ctx_a), size
\* what clip_get_image_size answers; gives the object afterwards, the
\* return value, the handles handed to clip_free and the backend functions
\* called
loadVisionModel(self, avail, res, size) ==
    IF self.visionModelLoaded
    THEN [self |-> self, ok |-> TRUE, freed |-> <<>>, backend |-> {}]
    ELSE IF ~avail
    THEN [self |-> self, ok |-> FALSE, freed |-> <<>>, backend |-> {}]
    ELSE IF res.ctx_v = NULL
    THEN [self |-> self, ok |-> FALSE,
          freed |-> IF res.ctx_a # NULL THEN <<res.ctx_a>> ELSE <<>>,
          backend |-> {"clip_init"} \cup
                      (IF res.ctx_a # NULL THEN {"clip_free"} ELSE {})]
    ELSE LET stored == [self EXCEPT !.clip_context = res.ctx_v,
                                    !.visionModelLoaded = TRUE]
         IN [self |-> [stored EXCEPT
                         !.visionCaps = detectVisionCapabilities(stored, avail, size)],
             ok |-> TRUE,
             freed |-> IF res.ctx_a # NULL /\ res.ctx_a # res.ctx_v
                       THEN <<res.ctx_a>> ELSE <<>>,
             backend |-> {"clip_init", "clip_get_image_size"} \cup
                         (IF res.ctx_a # NULL /\ res.ctx_a # res.ctx_v
                          THEN {"clip_free"} ELSE {})]

\* a call without arguments, and a result that carries no capabilities
NoArgs == [argc |-> 0, typesOk |-> FALSE, len |-> 0, width |-> 0, height |-> 0]
NoCaps == [maxImages |-> 0, supportedFormats |-> {},
           maxResolution |-> [width |-> 0, height |-> 0],
           supportsImageGeneration |-> FALSE]

\* the temporary native objects one call created and freed
NoTmp == [u8Init |-> 0, u8Free |-> 0, batchInit |-> 0, batchFree |-> 0]

\* the backend's answers where none is asked for
NoAnswers ==
    [u8Init |-> FALSE, batchInit |-> FALSE, preprocess |-> FALSE, nImages |-> 0,
     firstImage |-> FALSE, embed_dim |-> 0, n_tokens_out |-> 0, encode |-> FALSE]

\* what a call that reaches no backend function reports
Outcome(op, result) ==
    [op |-> op, result |-> result, len |-> 0, backend |-> {}, tmp |-> NoTmp,
     channels |-> 0, args |-> NoArgs, caps |-> NoCaps, be |-> NoAnswers]

\* encodeImage() that does not test what clip_image_batch_encode returned
encodeImage_IgnoresEncodeResult(self, be) ==
    IF self.clip_context = NULL
    THEN [len |-> 0, backend |-> {}]
    ELSE IF be.embed_dim <= 0 \/ be.n_tokens_out <= 0
    THEN [len |-> 0, backend |-> {"clip_n_mmproj_embd", "clip_n_output_tokens"}]
    ELSE [len |-> be.embed_dim * be.n_tokens_out,
          backend |-> {"clip_n_mmproj_embd", "clip_n_output_tokens",
                       "clip_image_batch_encode"}]

\* encodeImage(): the length of the embedding returned (0: the empty vector)
\* and the backend functions called
encodeImage(self, be) ==
    IF self.clip_context = NULL
    THEN [len |-> 0, backend |-> {}]
    ELSE IF be.embed_dim <= 0 \/ be.n_tokens_out <= 0
    THEN [len |-> 0, backend |-> {"clip_n_mmproj_embd", "clip_n_output_tokens"}]
    ELSE IF ~be.encode
    THEN [len |-> 0,
          backend |-> {"clip_n_mmproj_embd", "clip_n_output_tokens",
                       "clip_image_batch_encode"}]
    ELSE [len |-> be.embed_dim * be.n_tokens_out,
          backend |-> {"clip_n_mmproj_embd", "clip_n_output_tokens",
                       "clip_image_batch_encode"}]

\* preprocessImage() that keeps the batch when clip_image_preprocess fails
preprocessImage_KeepsBatch(be) ==
    IF ~be.batchInit
    THEN [ok |-> FALSE, batchInit |-> 0, batchFree |-> 0,
          backend |-> {"clip_image_f32_batch_init"}]
    ELSE IF ~be.preprocess
    THEN [ok |-> FALSE, batchInit |-> 1, batchFree |-> 0,
          backend |-> {"clip_image_f32_batch_init", "clip_image_preprocess"}]
    ELSE [ok |-> TRUE, batchInit |-> 1, batchFree |-> 0,
          backend |-> {"clip_image_f32_batch_init", "clip_image_preprocess"}]

\* preprocessImage(): whether a batch is returned, the batches created and
\* freed inside, and the backend functions called
preprocessImage(be) ==
    IF ~be.batchInit
    THEN [ok |-> FALSE, batchInit |-> 0, batchFree |-> 0,
          backend |-> {"clip_image_f32_batch_init"}]
    ELSE IF ~be.preprocess
    THEN [ok |-> FALSE, batchInit |-> 1, batchFree |-> 1,
          backend |-> {"clip_image_f32_batch_init", "clip_image_preprocess"}]
    ELSE [ok |-> TRUE, batchInit |-> 1, batchFree |-> 0,
          backend |-> {"clip_image_f32_batch_init", "clip_image_preprocess"}]

\* processImageData(): the outcome of one call with the channel count the
\* caller passes, under the backend's answers be
processImageData(self, avail, channels, be) ==
    LET fail(msg, backend, tmp) ==
            [Outcome("processImage", msg) EXCEPT
               !.backend = backend, !.tmp = tmp, !.channels = channels]
        pre == preprocessImage(be)
        enc == encodeImage(self, be)
        loadCalls == {"clip_image_u8_init", "clip_build_img_from_pixels"}
        \* both temporaries exist: the image and the batch
        both(u8Free, batchFree) ==
            [u8Init |-> 1, u8Free |-> u8Free, batchInit |-> 1, batchFree |-> batchFree]
    IN  IF ~avail
        THEN fail(ErrNoClip, {}, NoTmp)
        ELSE IF ~self.visionModelLoaded \/ self.clip_context = NULL
        THEN fail("Image processing failed: Vision model not loaded", {}, NoTmp)
        ELSE IF ~be.u8Init
        THEN fail(ErrLoadImage, {"clip_image_u8_init"}, NoTmp)
        ELSE IF ~pre.ok
        THEN fail(ErrPreprocess, loadCalls \cup pre.backend,
                  [u8Init |-> 1, u8Free |-> 1,
                   batchInit |-> pre.batchInit, batchFree |-> pre.batchFree])
        ELSE IF be.nImages < 1
        THEN fail(ErrNoImages,
                  loadCalls \cup pre.backend \cup {"clip_image_f32_batch_n_images"},
                  both(1, 1))
        ELSE IF ~be.firstImage
        THEN fail(ErrFirstImage,
                  loadCalls \cup pre.backend \cup
                    {"clip_image_f32_batch_n_images", "clip_image_f32_get_img"},
                  both(1, 1))
        ELSE IF enc.len = 0
        THEN fail(ErrEncode,
                  loadCalls \cup pre.backend \cup enc.backend \cup
                    {"clip_image_f32_batch_n_images", "clip_image_f32_get_img"},
                  both(1, 1))
        ELSE [Outcome("processImage", "ok") EXCEPT
                !.len = enc.len,
                !.backend = loadCalls \cup pre.backend \cup enc.backend \cup
                    {"clip_image_f32_batch_n_images", "clip_image_f32_get_img"},
                !.tmp = both(1, 1), !.channels = channels]

\* whether ProcessImage() with args gets as far as processImageData()
ReachesBackend(self, args) ==
    args.argc >= 3 /\ args.typesOk /\ ~self.disposed /\ self.visionModelLoaded

\* ProcessImage() that tests visionModelLoaded before disposed
ProcessImage_NotLoadedFirst(self, avail, args, be) ==
    IF args.argc < 3
    THEN Outcome("processImage", ErrArgCount)
    ELSE IF ~args.typesOk
    THEN Outcome("processImage", ErrArgTypes)
    ELSE IF ~self.visionModelLoaded
    THEN Outcome("processImage", ErrNotLoaded)
    ELSE IF self.disposed
    THEN Outcome("processImage", ErrDisposed)
    ELSE processImageData(self, avail, 3, be)

\* ProcessImage(): the outcome of the call with arguments args
ProcessImage(self, avail, args, be) ==
    IF args.argc < 3
    THEN Outcome("processImage", ErrArgCount)
    ELSE IF ~args.typesOk
    THEN Outcome("processImage", ErrArgTypes)
    ELSE IF self.disposed
    THEN Outcome("processImage", ErrDisposed)
    ELSE IF ~self.visionModelLoaded
    THEN Outcome("processImage", ErrNotLoaded)
    ELSE processImageData(self, avail, 3, be)

(***************************************************************************)
(* The pixel conversion. Indices are those of the code, from 0; a read     *)
(* past the end of the caller's buffer yields the byte junk.               *)
(***************************************************************************)

\* data[i] as the code reads it
ByteAt(data, i, junk) == IF i + 1 <= Len(data) THEN data[i + 1] ELSE junk

\* the indices loadImageFromData and clip_build_img_from_pixels read from
\* the caller's buffer
IndicesRead(width, height, channels) ==
    IF channels = 3
    THEN 0..(width * height * 3 - 1)
    ELSE {i * channels + k : i \in 0..(width * height - 1),
                             k \in 0..((IF channels > 2 THEN 3 ELSE channels) - 1)}

\* loadImageFromData() that steps through the buffer three bytes per pixel
\* whatever the channel count
loadImageFromData_StrideThree(data, width, height, channels, u8Init, junk) ==
    IF ~u8Init
    THEN NoImage
    ELSE LET pixelCount == width * height
             rgb == [n \in 1..(pixelCount * 3) |->
                       LET srcIndex == ((n - 1) \div 3) * 3
                           r == ByteAt(data, srcIndex + 0, junk)
                           g == IF channels > 1 THEN ByteAt(data, srcIndex + 1, junk) ELSE r
                           b == IF channels > 2 THEN ByteAt(data, srcIndex + 2, junk) ELSE r
                       IN CASE (n - 1) % 3 = 0 -> r
                            [] (n - 1) % 3 = 1 -> g
                            [] OTHER -> b]
         IN [op |-> "none", ok |-> TRUE, pixels |-> rgb, nx |-> width, ny |-> height,
             oob |-> \E i \in IndicesRead(width, height, 3) : i >= Len(data),
             crashed |-> FALSE]

\* loadImageFromData(): the image built when clip_image_u8_init answers
\* u8Init; pixels are the width * height * 3 bytes clip_build_img_from_pixels
\* copies from src, and oob tells whether a read went past the buffer
loadImageFromData(data, width, height, channels, u8Init, junk) ==
    IF ~u8Init
    THEN NoImage
    ELSE LET pixelCount == width * height
             rgb == [n \in 1..(pixelCount * 3) |->
                       LET srcIndex == ((n - 1) \div 3) * channels
                           r == ByteAt(data, srcIndex + 0, junk)
                           g == IF channels > 1 THEN ByteAt(data, srcIndex + 1, junk) ELSE r
                           b == IF channels > 2 THEN ByteAt(data, srcIndex + 2, junk) ELSE r
                       IN CASE (n - 1) % 3 = 0 -> r
                            [] (n - 1) % 3 = 1 -> g
                            [] OTHER -> b]
             src == IF channels # 3
                    THEN rgb
                    ELSE [n \in 1..(pixelCount * 3) |-> ByteAt(data, n - 1, junk)]
         IN [op |-> "none", ok |-> TRUE, pixels |-> src, nx |-> width, ny |-> height,
             oob |-> \E i \in IndicesRead(width, height, channels) : i >= Len(data),
             crashed |-> FALSE]

\* a read past the end of the buffer is undefined: the process may also die
Crashed == [NoImage EXCEPT !.oob = TRUE, !.crashed = TRUE]

(***************************************************************************)
(* The calls on one AddonVisionModel, as steps.                            *)
(***************************************************************************)

\* the free counts after the handles of freed were handed to clip_free
CountFrees(count, freed) ==
    [h \in Handles |-> count[h] + Cardinality({i \in DOMAIN freed : freed[i] = h})]

\* what clip_init may return: no vision context or a fresh one, and no audio
\* context, a fresh one, or the vision context itself
ClipInitResults ==
    [ctx_v : {NULL, nextHandle + 1}, ctx_a : {NULL, nextHandle + 1, nextHandle + 2}]

\* Init() without its check of disposed
Init_NoDisposedCheck(self, avail, res, size, threw) ==
    IF threw /\ ~self.visionModelLoaded /\ avail
    THEN [self |-> self, result |-> ErrBackendThrew, freed |-> <<>>,
          backend |-> {"clip_init"}]
    ELSE LET r == loadVisionModel(self, avail, res, size)
         IN [self |-> r.self,
             result |-> IF r.ok THEN "resolved" ELSE ErrLoadFailed,
             freed |-> r.freed, backend |-> r.backend]

\* Init(): clip_init returns res or throws; gives the object afterwards,
\* what the caller gets, the handles handed to clip_free and the backend
\* functions called
Init(self, avail, res, size, threw) ==
    IF self.disposed
    THEN [self |-> self, result |-> ErrDisposed, freed |-> <<>>, backend |-> {}]
    ELSE IF threw /\ ~self.visionModelLoaded /\ avail
    THEN [self |-> self, result |-> ErrBackendThrew, freed |-> <<>>,
          backend |-> {"clip_init"}]
    ELSE LET r == loadVisionModel(self, avail, res, size)
         IN [self |-> r.self,
             result |-> IF r.ok THEN "resolved" ELSE ErrLoadFailed,
             freed |-> r.freed, backend |-> r.backend]

\* init()
AddonVisionModel_Init ==
    /\ UNCHANGED otherThanVision
    /\ ~destroyed
    /\ \E res \in ClipInitResults, size \in ImageSizes, threw \in BOOLEAN :
         LET r == Init(vision, clipAvailable, res, size, threw)
             called == "clip_init" \in r.backend
             returned == called /\ r.result # ErrBackendThrew
         IN /\ called => clipInitCalls < MaxClipInit
            /\ vision' = r.self
            /\ vLast' = [Outcome("init", r.result) EXCEPT !.backend = r.backend]
            /\ freedByLoad' = CountFrees(freedByLoad, r.freed)
            /\ created' = IF returned THEN created \cup ({res.ctx_v, res.ctx_a} \ {NULL})
                          ELSE created
            /\ loadedCtx' = IF r.self.clip_context # vision.clip_context
                            THEN loadedCtx \cup {r.self.clip_context} ELSE loadedCtx
            /\ nextHandle' = IF returned THEN nextHandle + 2 ELSE nextHandle
            /\ clipInitCalls' = IF called THEN clipInitCalls + 1 ELSE clipInitCalls
            /\ imageSize' = IF "clip_get_image_size" \in r.backend THEN size
                            ELSE imageSize
    /\ UNCHANGED <<clipAvailable, destroyed, freedByDispose, disposeCalls>>

\* dispose(): Dispose()
AddonVisionModel_Dispose ==
    /\ UNCHANGED otherThanVision
    /\ ~destroyed
    /\ disposeCalls < MaxDisposeCalls
    /\ LET r == dispose(vision, clipAvailable)
       IN /\ vision' = r.self
          /\ freedByDispose' = CountFrees(freedByDispose, r.freed)
          /\ vLast' = [Outcome("dispose", "undefined") EXCEPT
                         !.backend = IF r.freed # <<>> THEN {"clip_free"} ELSE {}]
    /\ disposeCalls' = disposeCalls + 1
    /\ UNCHANGED <<clipAvailable, destroyed, nextHandle, created, loadedCtx,
                   freedByLoad, clipInitCalls, imageSize>>

\* ProcessImage() that marks the model as not loaded when the call fails
AddonVisionModel_ProcessImage_UnloadsOnFailure ==
    /\ UNCHANGED otherThanVision
    /\ ~destroyed
    /\ \E args \in ProcessImageArgs :
         \E be \in IF ReachesBackend(vision, args) THEN BackendAnswers ELSE {NoAnswers} :
            LET r == ProcessImage(vision, clipAvailable, args, be)
            IN /\ vLast' = [r EXCEPT !.args = args, !.be = be]
               /\ vision' = IF r.result = "ok" THEN vision
                            ELSE [vision EXCEPT !.visionModelLoaded = FALSE]
    /\ UNCHANGED <<clipAvailable, destroyed, nextHandle, created, loadedCtx,
                   freedByDispose, freedByLoad, clipInitCalls, disposeCalls,
                   imageSize>>

\* processImage(...): ProcessImage()
AddonVisionModel_ProcessImage ==
    /\ UNCHANGED otherThanVision
    /\ ~destroyed
    /\ \E args \in ProcessImageArgs :
         \E be \in IF ReachesBackend(vision, args) THEN BackendAnswers ELSE {NoAnswers} :
            vLast' = [ProcessImage(vision, clipAvailable, args, be) EXCEPT
                         !.args = args, !.be = be]
    /\ UNCHANGED <<vision, clipAvailable, destroyed, nextHandle, created, loadedCtx,
                   freedByDispose, freedByLoad, clipInitCalls, disposeCalls,
                   imageSize>>

\* getVisionCapabilities(): GetVisionCapabilities() copies visionCaps out
AddonVisionModel_GetVisionCapabilities ==
    /\ UNCHANGED otherThanVision
    /\ ~destroyed
    /\ vLast' = [Outcome("getVisionCapabilities", "caps") EXCEPT !.caps = vision.visionCaps]
    /\ UNCHANGED <<vision, clipAvailable, destroyed, nextHandle, created, loadedCtx,
                   freedByDispose, freedByLoad, clipInitCalls, disposeCalls,
                   imageSize>>

\* ~AddonVisionModel(): the destructor calls dispose()
AddonVisionModel_Destructor ==
    /\ UNCHANGED otherThanVision
    /\ ~destroyed
    /\ LET r == dispose(vision, clipAvailable)
       IN /\ vision' = r.self
          /\ freedByDispose' = CountFrees(freedByDispose, r.freed)
          /\ vLast' = [Outcome("destructor", "undefined") EXCEPT
                         !.backend = IF r.freed # <<>> THEN {"clip_free"} ELSE {}]
    /\ destroyed' = TRUE
    /\ UNCHANGED <<clipAvailable, nextHandle, created, loadedCtx, freedByLoad,
                   clipInitCalls, disposeCalls, imageSize>>

(***************************************************************************)
(* The conversion applied to one image: directly, with the channel count   *)
(* the image has, and through processImage() on a loaded model.            *)
(***************************************************************************)

\* the answers of the backend that decide whether an image is built:
\* clip_image_u8_init fails, or every call succeeds
PixelAnswers == {be \in BackendAnswers : be.encode \/ ~be.u8Init}

\* loadImageFromData(data, width, height, channels) on the image px
Pixels_loadImageFromData ==
    /\ UNCHANGED <<visionVars, backendVars, audioVars>>
    /\ \E u8Init \in BOOLEAN, junk \in JunkBytes, crash \in BOOLEAN :
         LET img == loadImageFromData(px.data, px.width, px.height, px.channels,
                                      u8Init, junk)
         IN pxOut' = IF img.oob /\ crash THEN [Crashed EXCEPT !.op = "loadImageFromData"]
                     ELSE [img EXCEPT !.op = "loadImageFromData"]
    /\ UNCHANGED px

\* processImage(data, width, height, channels) with the image px:
\* ProcessImage() and, where it gets that far, the image it builds
Pixels_ProcessImage ==
    /\ UNCHANGED <<backendVars, audioVars>>
    /\ ~destroyed
    /\ \E be \in PixelAnswers, junk \in JunkBytes, crash \in BOOLEAN :
         LET args == [argc |-> 4, typesOk |-> TRUE, len |-> Len(px.data),
                      width |-> px.width, height |-> px.height]
             r == ProcessImage(vision, clipAvailable, args, be)
             img == loadImageFromData(px.data, px.width, px.height, r.channels,
                                      be.u8Init, junk)
             reached == "clip_image_u8_init" \in r.backend
         IN IF reached /\ img.oob /\ crash
            THEN /\ pxOut' = [Crashed EXCEPT !.op = "processImage"]
                 /\ vLast' = [Outcome("processImage", "crashed") EXCEPT !.args = args]
            ELSE /\ pxOut' = IF reached THEN [img EXCEPT !.op = "processImage"]
                             ELSE [NoImage EXCEPT !.op = "processImage"]
                 /\ vLast' = [r EXCEPT !.args = args, !.be = be]
    /\ UNCHANGED <<px, vision, clipAvailable, destroyed, nextHandle, created, loadedCtx,
                   freedByDispose, freedByLoad, clipInitCalls, disposeCalls,
                   imageSize>>

(***************************************************************************)
(* The llama backend: addonInit, addonDispose, their workers and the       *)
(* module finalizer. The calls, OnOK/OnError and the finalizer run on the  *)
(* JavaScript thread; each worker's Execute runs on a thread of the pool,  *)
(* one read, write or backend call of the two flags per step.              *)
(***************************************************************************)

\* a promise settled once more, as resolved or rejected
Settle(call, how) == [call EXCEPT !.state = how, !.settles = @ + 1]

\* the dispose() call whose unload worker has not delivered its result yet
\* (0: none)
DisposeInFlight ==
    LET pending == {c \in DOMAIN calls :
                       calls[c].op = "dispose" /\ calls[c].worker # 0
                       /\ workers[calls[c].worker].pc # "done"}
    IN IF pending = {} THEN 0 ELSE CHOOSE c \in pending : \A d \in pending : c <= d

\* the init() call whose load worker has not delivered its result yet (0: none)
InitInFlight ==
    LET pending == {c \in DOMAIN calls :
                       calls[c].op = "init" /\ calls[c].worker # 0
                       /\ workers[calls[c].worker].pc # "done"}
    IN IF pending = {} THEN 0 ELSE CHOOSE c \in pending : \A d \in pending : c <= d

\* a call as it is made: what was in flight then, whether it is made after
\* disposal with every worker's result delivered, its worker (0: none) and
\* its promise
NewCall(op, worker, state) ==
    [op |-> op, worker |-> worker, state |-> state,
     settles |-> IF state = "pending" THEN 0 ELSE 1,
     duringDispose |-> DisposeInFlight, duringInit |-> InitInFlight,
     afterDispose |-> backendDisposed /\ \A w \in DOMAIN workers : workers[w].pc = "done"]

NewWorker(kind, call) == [kind |-> kind, pc |-> "queued", error |-> FALSE, call |-> call]

\* addonInit() without its check of backendInitialized
addonInit_AlwaysQueues ==
    /\ UNCHANGED otherThanBackend
    /\ ~finalized
    /\ Len(calls) < MaxBackendCalls
    /\ workers' = Append(workers, NewWorker("load", Len(calls) + 1))
    /\ calls' = Append(calls, NewCall("init", Len(workers) + 1, "pending"))
    /\ UNCHANGED <<backendInitialized, backendDisposed, finalized, backendInitCalls,
                   backendInitDone, backendFreeCalls, disposedWrites, freeChecks>>

\* addonInit()
addonInit ==
    /\ UNCHANGED otherThanBackend
    /\ ~finalized
    /\ Len(calls) < MaxBackendCalls
    /\ IF backendInitialized
       THEN /\ calls' = Append(calls, NewCall("init", 0, "resolved"))
            /\ UNCHANGED workers
       ELSE /\ workers' = Append(workers, NewWorker("load", Len(calls) + 1))
            /\ calls' = Append(calls, NewCall("init", Len(workers) + 1, "pending"))
    /\ UNCHANGED <<backendInitialized, backendDisposed, finalized, backendInitCalls,
                   backendInitDone, backendFreeCalls, disposedWrites, freeChecks>>

\* addonDispose()
addonDispose ==
    /\ UNCHANGED otherThanBackend
    /\ ~finalized
    /\ Len(calls) < MaxBackendCalls
    /\ IF backendDisposed
       THEN /\ calls' = Append(calls, NewCall("dispose", 0, "resolved"))
            /\ UNCHANGED <<workers, backendDisposed, disposedWrites>>
       ELSE /\ backendDisposed' = TRUE
            /\ disposedWrites' = disposedWrites + 1
            /\ workers' = Append(workers, NewWorker("unload", Len(calls) + 1))
            /\ calls' = Append(calls, NewCall("dispose", Len(workers) + 1, "pending"))
    /\ UNCHANGED <<backendInitialized, finalized, backendInitCalls, backendInitDone,
                   backendFreeCalls, freeChecks>>

\* addonFreeLlamaBackend() without its check of backendDisposed
addonFreeLlamaBackend_NoGuard ==
    /\ UNCHANGED otherThanBackend
    /\ ~finalized
    /\ finalized' = TRUE
    /\ backendDisposed' = TRUE
    /\ disposedWrites' = disposedWrites + 1
    /\ freeChecks' = freeChecks + 1
    /\ IF backendInitialized
       THEN /\ backendInitialized' = FALSE
            /\ backendFreeCalls' = backendFreeCalls + 1
       ELSE UNCHANGED <<backendInitialized, backendFreeCalls>>
    /\ UNCHANGED <<calls, workers, backendInitCalls, backendInitDone>>

\* addonFreeLlamaBackend(), the finalizer of the module's exports
addonFreeLlamaBackend ==
    /\ UNCHANGED otherThanBackend
    /\ ~finalized
    /\ finalized' = TRUE
    /\ IF backendDisposed
       THEN UNCHANGED <<backendDisposed, backendInitialized, backendFreeCalls,
                        disposedWrites, freeChecks>>
       ELSE /\ backendDisposed' = TRUE
            /\ disposedWrites' = disposedWrites + 1
            /\ freeChecks' = freeChecks + 1
            /\ IF backendInitialized
               THEN /\ backendInitialized' = FALSE
                    /\ backendFreeCalls' = backendFreeCalls + 1
               ELSE UNCHANGED <<backendInitialized, backendFreeCalls>>
    /\ UNCHANGED <<calls, workers, backendInitCalls, backendInitDone>>

\* worker w moves to pc, with its error set when a backend call threw
Step(w, pc, threw) ==
    workers' = [workers EXCEPT ![w].pc = pc, ![w].error = @ \/ threw]

\* AddonBackendLoadWorker::Execute: llama_backend_init(), which may throw
LoadWorker_Init ==
    \E w \in DOMAIN workers :
       /\ UNCHANGED otherThanBackend
       /\ workers[w].kind = "load" /\ workers[w].pc = "queued"
       /\ backendInitCalls' = backendInitCalls + 1
       /\ \E threw \in BOOLEAN :
            /\ Step(w, IF threw THEN "executed" ELSE "readDisposed", threw)
            /\ backendInitDone' = IF threw THEN backendInitDone ELSE backendInitDone + 1
       /\ UNCHANGED <<backendInitialized, backendDisposed, calls, finalized,
                      backendFreeCalls, disposedWrites, freeChecks>>

\* AddonBackendLoadWorker::Execute: if (backendDisposed)
LoadWorker_ReadDisposed ==
    \E w \in DOMAIN workers :
       /\ UNCHANGED otherThanBackend
       /\ workers[w].kind = "load" /\ workers[w].pc = "readDisposed"
       /\ Step(w, IF backendDisposed THEN "free" ELSE "setInitialized", FALSE)
       /\ UNCHANGED <<backendInitialized, backendDisposed, calls, finalized,
                      backendInitCalls, backendInitDone, backendFreeCalls,
                      disposedWrites, freeChecks>>

\* AddonBackendLoadWorker::Execute: llama_backend_free(), which may throw
LoadWorker_Free ==
    \E w \in DOMAIN workers :
       /\ UNCHANGED otherThanBackend
       /\ workers[w].kind = "load" /\ workers[w].pc = "free"
       /\ backendFreeCalls' = backendFreeCalls + 1
       /\ \E threw \in BOOLEAN : Step(w, "executed", threw)
       /\ UNCHANGED <<backendInitialized, backendDisposed, calls, finalized,
                      backendInitCalls, backendInitDone, disposedWrites, freeChecks>>

\* AddonBackendLoadWorker::Execute: backendInitialized = true
LoadWorker_SetInitialized ==
    \E w \in DOMAIN workers :
       /\ UNCHANGED otherThanBackend
       /\ workers[w].kind = "load" /\ workers[w].pc = "setInitialized"
       /\ backendInitialized' = TRUE
       /\ Step(w, "executed", FALSE)
       /\ UNCHANGED <<backendDisposed, calls, finalized, backendInitCalls,
                      backendInitDone, backendFreeCalls, disposedWrites, freeChecks>>

\* AddonBackendUnloadWorker::Execute that frees the backend without testing
\* backendInitialized
UnloadWorker_NoInitializedCheck ==
    \E w \in DOMAIN workers :
       /\ UNCHANGED otherThanBackend
       /\ workers[w].kind = "unload" /\ workers[w].pc = "queued"
       /\ Step(w, "clearInitialized", FALSE)
       /\ freeChecks' = freeChecks + 1
       /\ UNCHANGED <<backendInitialized, backendDisposed, calls, finalized,
                      backendInitCalls, backendInitDone, backendFreeCalls, disposedWrites>>

\* AddonBackendUnloadWorker::Execute: if (backendInitialized)
UnloadWorker_ReadInitialized ==
    \E w \in DOMAIN workers :
       /\ UNCHANGED otherThanBackend
       /\ workers[w].kind = "unload" /\ workers[w].pc = "queued"
       /\ Step(w, IF backendInitialized THEN "clearInitialized" ELSE "executed", FALSE)
       /\ freeChecks' = freeChecks + 1
       /\ UNCHANGED <<backendInitialized, backendDisposed, calls, finalized,
                      backendInitCalls, backendInitDone, backendFreeCalls, disposedWrites>>

\* AddonBackendUnloadWorker::Execute: backendInitialized = false
UnloadWorker_ClearInitialized ==
    \E w \in DOMAIN workers :
       /\ UNCHANGED otherThanBackend
       /\ workers[w].kind = "unload" /\ workers[w].pc = "clearInitialized"
       /\ backendInitialized' = FALSE
       /\ Step(w, "free", FALSE)
       /\ UNCHANGED <<backendDisposed, calls, finalized, backendInitCalls,
                      backendInitDone, backendFreeCalls, disposedWrites, freeChecks>>

\* AddonBackendUnloadWorker::Execute: llama_backend_free(), which may throw
UnloadWorker_Free ==
    \E w \in DOMAIN workers :
       /\ UNCHANGED otherThanBackend
       /\ workers[w].kind = "unload" /\ workers[w].pc = "free"
       /\ backendFreeCalls' = backendFreeCalls + 1
       /\ \E threw \in BOOLEAN : Step(w, "executed", threw)
       /\ UNCHANGED <<backendInitialized, backendDisposed, calls, finalized,
                      backendInitCalls, backendInitDone, disposedWrites, freeChecks>>

\* OnOK() that returns without resolving the promise
Worker_OnOK_NoResolve ==
    \E w \in DOMAIN workers :
       /\ UNCHANGED otherThanBackend
       /\ workers[w].pc = "executed" /\ ~workers[w].error
       /\ workers' = [workers EXCEPT ![w].pc = "done"]
       /\ UNCHANGED <<backendInitialized, backendDisposed, calls, finalized,
                      backendInitCalls, backendInitDone, backendFreeCalls,
                      disposedWrites, freeChecks>>

\* OnOK() of either worker: Execute returned with no error set
Worker_OnOK ==
    \E w \in DOMAIN workers :
       /\ UNCHANGED otherThanBackend
       /\ workers[w].pc = "executed" /\ ~workers[w].error
       /\ workers' = [workers EXCEPT ![w].pc = "done"]
       /\ calls' = [calls EXCEPT ![workers[w].call] = Settle(@, "resolved")]
       /\ UNCHANGED <<backendInitialized, backendDisposed, finalized, backendInitCalls,
                      backendInitDone, backendFreeCalls, disposedWrites, freeChecks>>

\* OnError() that resolves the promise after rejecting it
Worker_OnError_AlsoResolves ==
    \E w \in DOMAIN workers :
       /\ UNCHANGED otherThanBackend
       /\ workers[w].pc = "executed" /\ workers[w].error
       /\ workers' = [workers EXCEPT ![w].pc = "done"]
       /\ calls' = [calls EXCEPT ![workers[w].call] =
                                    Settle(Settle(@, "rejected"), "resolved")]
       /\ UNCHANGED <<backendInitialized, backendDisposed, finalized, backendInitCalls,
                      backendInitDone, backendFreeCalls, disposedWrites, freeChecks>>

\* OnError() of either worker: Execute set an error
Worker_OnError ==
    \E w \in DOMAIN workers :
       /\ UNCHANGED otherThanBackend
       /\ workers[w].pc = "executed" /\ workers[w].error
       /\ workers' = [workers EXCEPT ![w].pc = "done"]
       /\ calls' = [calls EXCEPT ![workers[w].call] = Settle(@, "rejected")]
       /\ UNCHANGED <<backendInitialized, backendDisposed, finalized, backendInitCalls,
                      backendInitDone, backendFreeCalls, disposedWrites, freeChecks>>

(***************************************************************************)
(* AddonAudioModel: the fields and their initializers are those of the     *)
(* header; the setters and dispose() follow the specification's text.      *)
(***************************************************************************)

\* the errors of the specification's taxonomy the setters raise
ValidationError == "ValidationError"
DisposedError == "DisposedError"

\* AudioCapabilities as the member initializers of the header leave it
HeaderAudioCaps ==
    [maxAudioFiles |-> 1,
     supportedFormats |-> {"audio/wav", "audio/mp3", "audio/flac", "audio/ogg"},
     maxDuration |-> 300,
     supportedSampleRates |-> {16000, 22050, 44100, 48000},
     supportsSpeechToText |-> TRUE,
     supportedLanguages |-> {"en", "es", "fr", "de", "it", "pt", "ru", "ja", "ko", "zh"}]

\* the object as the member initializers of the header leave it
ConstructedAudio ==
    [whisper_ctx |-> NULL, audioModelLoaded |-> FALSE, currentLanguage |-> "auto",
     sampleRate |-> 16000, disposed |-> FALSE, audioCaps |-> HeaderAudioCaps]

\* rates and languages a caller may hand to the setters
SampleRateArgs == HeaderAudioCaps.supportedSampleRates \cup {8000, 99999}
LanguageArgs == {"en", "ja", "zh", "auto", "xx"}

\* what a call on the audio model was given and returned, and the backend
\* functions it called
AudioOutcome(op, rate, lang, result) ==
    [op |-> op, rate |-> rate, lang |-> lang, result |-> result, backend |-> {}]

\* setSampleRate() that stores the rate before it validates it
SetSampleRate_StoresFirst(self, rate) ==
    IF self.disposed
    THEN [self |-> self, result |-> DisposedError]
    ELSE IF rate \notin self.audioCaps.supportedSampleRates
    THEN [self |-> [self EXCEPT !.sampleRate = rate], result |-> ValidationError]
    ELSE [self |-> [self EXCEPT !.sampleRate = rate], result |-> "undefined"]

\* setSampleRate(rate): gives the object afterwards and what the caller gets
SetSampleRate(self, rate) ==
    IF self.disposed
    THEN [self |-> self, result |-> DisposedError]
    ELSE IF rate \notin self.audioCaps.supportedSampleRates
    THEN [self |-> self, result |-> ValidationError]
    ELSE [self |-> [self EXCEPT !.sampleRate = rate], result |-> "undefined"]

\* setLanguage(lang)
SetLanguage(self, lang) ==
    IF self.disposed
    THEN [self |-> self, result |-> DisposedError]
    ELSE IF lang \notin self.audioCaps.supportedLanguages
    THEN [self |-> self, result |-> ValidationError]
    ELSE [self |-> [self EXCEPT !.currentLanguage = lang], result |-> "undefined"]

AddonAudioModel_SetSampleRate ==
    /\ UNCHANGED <<visionVars, backendVars, pixelVars>>
    /\ \E rate \in SampleRateArgs :
         LET r == SetSampleRate(audio, rate)
         IN /\ audio' = r.self
            /\ aLast' = AudioOutcome("setSampleRate", rate, "", r.result)

AddonAudioModel_SetLanguage ==
    /\ UNCHANGED <<visionVars, backendVars, pixelVars>>
    /\ \E lang \in LanguageArgs :
         LET r == SetLanguage(audio, lang)
         IN /\ audio' = r.self
            /\ aLast' = AudioOutcome("setLanguage", 0, lang, r.result)

\* dispose(): the handle becomes Disposed, whatever it was
AddonAudioModel_Dispose ==
    /\ UNCHANGED <<visionVars, backendVars, pixelVars>>
    /\ audio' = [audio EXCEPT !.disposed = TRUE, !.audioModelLoaded = FALSE,
                              !.whisper_ctx = NULL]
    /\ aLast' = AudioOutcome("dispose", 0, "", "undefined")

(***************************************************************************)
(* The specifications.                                                     *)
(***************************************************************************)

\* one model instance after its constructor, in either build, and the addon
\* module after registerCallback
Start ==
    /\ clipAvailable \in BOOLEAN
    /\ vision = ConstructedVision(clipAvailable)
    /\ destroyed = FALSE
    /\ nextHandle = 0
    /\ created = {}
    /\ loadedCtx = {}
    /\ freedByDispose = [h \in Handles |-> 0]
    /\ freedByLoad = [h \in Handles |-> 0]
    /\ clipInitCalls = 0
    /\ disposeCalls = 0
    /\ imageSize = 0
    /\ vLast = Outcome("constructor", "undefined")
    /\ backendInitialized = FALSE
    /\ backendDisposed = FALSE
    /\ calls = <<>>
    /\ workers = <<>>
    /\ finalized = FALSE
    /\ backendInitCalls = 0
    /\ backendInitDone = 0
    /\ backendFreeCalls = 0
    /\ disposedWrites = 0
    /\ freeChecks = 0
    /\ px = NoPixels
    /\ pxOut = NoImage
    /\ audio = ConstructedAudio
    /\ aLast = AudioOutcome("constructor", 0, "", "undefined")

VisionNext ==
    \/ AddonVisionModel_Init
    \/ AddonVisionModel_Dispose
    \/ AddonVisionModel_ProcessImage
    \/ AddonVisionModel_GetVisionCapabilities
    \/ AddonVisionModel_Destructor

BackendNext ==
    \/ addonInit
    \/ addonDispose
    \/ addonFreeLlamaBackend
    \/ LoadWorker_Init
    \/ LoadWorker_ReadDisposed
    \/ LoadWorker_Free
    \/ LoadWorker_SetInitialized
    \/ UnloadWorker_ReadInitialized
    \/ UnloadWorker_ClearInitialized
    \/ UnloadWorker_Free
    \/ Worker_OnOK
    \/ Worker_OnError

\* a loaded vision model (its init() got context 1 and an image size from
\* clip_init and clip_get_image_size) and an image a caller holds
PixelStart ==
    /\ clipAvailable = TRUE
    /\ vision = loadVisionModel(ConstructedVision(TRUE), TRUE,
                                [ctx_v |-> 1, ctx_a |-> NULL], 336).self
    /\ destroyed = FALSE
    /\ nextHandle = 2
    /\ created = {1}
    /\ loadedCtx = {1}
    /\ freedByDispose = [h \in Handles |-> 0]
    /\ freedByLoad = [h \in Handles |-> 0]
    /\ clipInitCalls = 1
    /\ disposeCalls = 0
    /\ imageSize = 336
    /\ vLast = [Outcome("init", "resolved") EXCEPT
                  !.backend = {"clip_init", "clip_get_image_size"}]
    /\ backendInitialized = FALSE
    /\ backendDisposed = FALSE
    /\ calls = <<>>
    /\ workers = <<>>
    /\ finalized = FALSE
    /\ backendInitCalls = 0
    /\ backendInitDone = 0
    /\ backendFreeCalls = 0
    /\ disposedWrites = 0
    /\ freeChecks = 0
    /\ px \in PixelInputs
    /\ pxOut = NoImage
    /\ audio = ConstructedAudio
    /\ aLast = AudioOutcome("constructor", 0, "", "undefined")

PixelNext ==
    \/ Pixels_loadImageFromData
    \/ Pixels_ProcessImage

AudioNext ==
    \/ AddonAudioModel_SetSampleRate
    \/ AddonAudioModel_SetLanguage
    \/ AddonAudioModel_Dispose

\* one vision model instance under any sequence of calls
SpecVision == Start /\ [][VisionNext]_vars

\* the backend manager under any interleaving of calls, workers and finalizer
SpecBackend == Start /\ [][BackendNext]_vars

\* a step of a worker's Execute on the thread pool, or the delivery of a
\* completion callback by the event loop
WorkerStep ==
    \/ LoadWorker_Init
    \/ LoadWorker_ReadDisposed
    \/ LoadWorker_Free
    \/ LoadWorker_SetInitialized
    \/ UnloadWorker_ReadInitialized
    \/ UnloadWorker_ClearInitialized
    \/ UnloadWorker_Free
    \/ Worker_OnOK
    \/ Worker_OnError

\* while some worker has a step to take, one is taken: the pool and the
\* event loop do not stop
BackendFairness == WF_vars(WorkerStep)

\* the backend manager with workers and callbacks scheduled fairly
SpecBackendFair == Start /\ [][BackendNext]_vars /\ BackendFairness

\* the pixel conversion applied to every image of PixelInputs
SpecPixels == PixelStart /\ [][PixelNext]_vars

\* the calls on one AddonAudioModel
SpecAudio == Start /\ [][AudioNext]_vars

(***************************************************************************)
(* Properties of AddonVisionModel (checked under SpecVision).              *)
(***************************************************************************)

\* the model is Loaded: visionModelLoaded is true and disposed is false
Loaded == vision.visionModelLoaded /\ ~vision.disposed

\* the terminal state: disposed, not loaded, no context
Terminal(self) == self.disposed /\ ~self.visionModelLoaded /\ self.clip_context = NULL

\* C1: in every reachable state, after any sequence of init, dispose,
\* processImage and getVisionCapabilities calls (failed loads included),
\* clip_context is non-null if and only if the model is Loaded.
C1_ContextIffLoaded == (vision.clip_context # NULL) <=> Loaded

\* a model that is Loaded, with a context, after an earlier load failed
C1_Witness ==
    /\ Loaded /\ vision.clip_context # NULL
    /\ clipInitCalls >= 2
    /\ vLast.op \in {"processImage", "getVisionCapabilities"}

\* C2: the context a successful load stored is handed to clip_free exactly
\* once over the model's lifetime: no handle is ever freed twice, dispose()
\* frees nothing but a context a successful load stored, every freed handle
\* is one clip_init handed out, a stored context is freed exactly when the
\* model no longer holds it, and after destruction every stored context has
\* been freed once.
C2_ReleasedExactlyOnce ==
    /\ \A h \in Handles :
         /\ freedByDispose[h] + freedByLoad[h] <= 1
         /\ freedByDispose[h] > 0 => h \in loadedCtx
         /\ freedByDispose[h] + freedByLoad[h] > 0 => h \in created
    /\ \A h \in loadedCtx :
         /\ freedByLoad[h] = 0
         /\ freedByDispose[h] = (IF vision.clip_context = h THEN 0 ELSE 1)
    /\ destroyed => \A h \in loadedCtx : freedByDispose[h] = 1

\* a destroyed model that had loaded a context and was disposed more than
\* once before
C2_Witness ==
    /\ destroyed /\ loadedCtx # {} /\ disposeCalls >= 2
    /\ \E h \in loadedCtx : freedByDispose[h] = 1

\* C3: dispose() is idempotent from every starting state: each call leaves
\* the model disposed, not loaded, with a null context, and a call on a
\* model that was disposed before changes no field and frees nothing, so N
\* calls leave the state one call leaves.
C3_DisposeIdempotent ==
    [][vLast'.op = "dispose" =>
         /\ Terminal(vision')
         /\ vision'.visionCaps = vision.visionCaps
         /\ disposeCalls >= 1 => (vision' = vision /\ freedByDispose' = freedByDispose
                                   /\ vLast'.backend = {})]_vars

\* dispose() was called a third time on a model that had been loaded
C3_Witness ==
    /\ vLast.op = "dispose" /\ disposeCalls >= 3 /\ loadedCtx # {}
    /\ Terminal(vision)

\* C4: Disposed is terminal: from a disposed model every step leaves disposed
\* true, visionModelLoaded false and clip_context null, and an init() fails
\* with the disposed error without calling clip_init.
C4_DisposedTerminal ==
    [][vision.disposed =>
         /\ Terminal(vision')
         /\ vLast'.op = "init" =>
              /\ vLast'.result = ErrDisposed
              /\ vLast'.backend = {}
              /\ clipInitCalls' = clipInitCalls
              /\ created' = created]_vars

\* init() was called on a model that was disposed after a successful load
C4_Witness ==
    /\ vLast.op = "init" /\ vLast.result = ErrDisposed
    /\ vision.disposed /\ loadedCtx # {}

\* C5 (as claimed): every processImage call on a disposed model, whatever its
\* arguments, fails with the disposed error and reaches no backend function.
C5_DisposedErrorWhateverArgs ==
    (vLast.op = "processImage" /\ vision.disposed) =>
        (vLast.result = ErrDisposed /\ vLast.backend = {})

\* the arguments pass the checks ProcessImage makes of them
ArgsAccepted(args) == args.argc >= 3 /\ args.typesOk

\* C6: a processImage call whose arguments ProcessImage accepts fails with
\* the not-loaded error on a model that is neither Loaded nor disposed, and
\* with the disposed error (not the not-loaded one) on a disposed model; in
\* both cases no backend function is called.
C6_NotLoadedAndDisposedErrors ==
    (vLast.op = "processImage" /\ ArgsAccepted(vLast.args)) =>
        /\ (~vision.disposed /\ ~vision.visionModelLoaded) =>
              (vLast.result = ErrNotLoaded /\ vLast.backend = {} /\ vLast.tmp = NoTmp)
        /\ vision.disposed =>
              (vLast.result = ErrDisposed /\ vLast.backend = {} /\ vLast.tmp = NoTmp)

\* processImage was called with accepted arguments on a model whose load
\* attempts all failed
C6_Witness ==
    /\ vLast.op = "processImage" /\ ArgsAccepted(vLast.args)
    /\ ~vision.disposed /\ ~vision.visionModelLoaded
    /\ clipInitCalls >= 1 /\ loadedCtx = {}
    /\ vLast.result = ErrNotLoaded

(***************************************************************************)
(* Properties of the backend manager (checked under SpecBackend).          *)
(***************************************************************************)

InitCalls == {c \in DOMAIN calls : calls[c].op = "init"}
DisposeCalls == {c \in DOMAIN calls : calls[c].op = "dispose"}

\* every worker queued so far has returned from Execute
AllExecuted == \A w \in DOMAIN workers : workers[w].pc \in {"executed", "done"}

\* C7 (as claimed): init() calls all issued before the first one completed
\* make one llama_backend_init call between them.
C7_OneBackendInit ==
    (\A d \in InitCalls :
        (\E c \in InitCalls : c < d) =>
            calls[d].duringInit = (CHOOSE c \in InitCalls : \A e \in InitCalls : c <= e))
        => backendInitCalls <= 1

\* C8 (as claimed): when dispose() was requested while an init() was in
\* flight, then once every worker has returned from Execute the backend is
\* not initialized and every llama_backend_init call that returned has been
\* matched by a llama_backend_free call.
C8_DisposalHonoured ==
    ((\E d \in DisposeCalls : calls[d].duringInit # 0) /\ AllExecuted)
        => (~backendInitialized /\ backendFreeCalls >= backendInitDone)

\* C9: backend dispose is idempotent: backendDisposed is written true at most
\* once (and is true exactly when it was written) and never reset, at most
\* one disposal path (unload worker or finalizer) runs the free check, at
\* most one unload worker is ever queued, and every dispose() but the first
\* is resolved at once with no worker.
C9_BackendDisposeOnce ==
    /\ [](/\ disposedWrites <= 1
          /\ backendDisposed <=> (disposedWrites = 1)
          /\ freeChecks <= 1
          /\ Cardinality({w \in DOMAIN workers : workers[w].kind = "unload"}) <= 1
          /\ \A c \in DisposeCalls : \A d \in DisposeCalls :
                c < d => (calls[d].worker = 0 /\ calls[d].state = "resolved"
                          /\ calls[d].settles = 1))
    /\ [][backendDisposed => backendDisposed']_vars

\* dispose() was called twice, its unload worker ran the free check and
\* freed the backend, and the finalizer ran afterwards
C9_Witness ==
    /\ Cardinality(DisposeCalls) >= 2
    /\ finalized /\ backendDisposed
    /\ freeChecks = 1 /\ backendFreeCalls = 1
    /\ AllExecuted

\* C10 (as claimed): a dispose() issued while an earlier dispose() is in
\* flight is not settled before the earlier call's unload worker has returned
\* from Execute, and settles as the earlier call does.
C10_SecondDisposeAwaitsFirst ==
    \A d \in DisposeCalls :
       (calls[d].duringDispose # 0 /\ calls[d].state # "pending") =>
          LET first == calls[d].duringDispose
          IN /\ workers[calls[first].worker].pc \in {"executed", "done"}
             /\ calls[first].state # "pending" => calls[d].state = calls[first].state

\* C11: an init() made while backendInitialized is true is resolved at once:
\* its promise is already resolved when it is returned, no worker is queued,
\* no llama_backend_init or llama_backend_free call is made and both flags
\* keep their values.
C11_InitWhenInitialized ==
    [][(backendInitialized /\ Len(calls') = Len(calls) + 1
              /\ calls'[Len(calls')].op = "init")
          => /\ calls'[Len(calls')].worker = 0
             /\ calls'[Len(calls')].state = "resolved"
             /\ calls'[Len(calls')].settles = 1
             /\ workers' = workers
             /\ backendInitCalls' = backendInitCalls
             /\ backendFreeCalls' = backendFreeCalls
             /\ backendInitialized' = backendInitialized
             /\ backendDisposed' = backendDisposed]_vars

\* a load worker initialized the backend and a later init() was resolved
\* with no worker
C11_Witness ==
    /\ backendInitialized /\ backendInitCalls = 1
    /\ \E c \in InitCalls : \E d \in InitCalls :
          /\ c < d
          /\ calls[c].worker # 0 /\ calls[c].state = "resolved"
          /\ calls[d].worker = 0 /\ calls[d].state = "resolved"

\* C12: the promise of every init() and dispose() call is settled at most
\* once: it is pending until settled, and once resolved or rejected it never
\* changes again.
C12_SettledAtMostOnce ==
    /\ [](\A c \in DOMAIN calls :
            /\ calls[c].settles <= 1
            /\ calls[c].state \in {"pending", "resolved", "rejected"}
            /\ (calls[c].state = "pending") <=> (calls[c].settles = 0))
    /\ [][\A c \in DOMAIN calls :
            calls[c].state # "pending" => calls'[c] = calls[c]]_vars

\* an init() was rejected and a dispose() resolved by their workers, every
\* promise is settled and the finalizer has run
C12_Witness ==
    /\ \E c \in InitCalls : calls[c].worker # 0 /\ calls[c].state = "rejected"
    /\ \E d \in DisposeCalls : calls[d].worker # 0 /\ calls[d].state = "resolved"
    /\ \A c \in DOMAIN calls : calls[c].state # "pending"
    /\ finalized

\* C22: at every point of every interleaving the llama_backend_free calls
\* made so far are at most as many as the llama_backend_init calls that
\* have returned.
C22_NoFreeWithoutInit == backendFreeCalls <= backendInitDone

\* an init() and a dispose() ran together, the finalizer ran too, every
\* worker has returned, and the backend was initialized once and freed once
C22_Witness ==
    /\ \E d \in DisposeCalls : calls[d].duringInit # 0
    /\ finalized /\ AllExecuted
    /\ backendInitDone = 1 /\ backendFreeCalls = 1

\* C24 (as claimed): an init() made after a dispose() has completed, with no
\* operation in flight, gets a load worker and never leaves the backend
\* initialized: backendInitialized is false and backendDisposed true from
\* then on, the worker frees the backend after initializing it, and the
\* promise is resolved unless a backend call threw.
C24_InitAfterDispose ==
    \A c \in InitCalls :
       calls[c].afterDispose =>
          /\ ~backendInitialized /\ backendDisposed
          /\ calls[c].worker # 0
          /\ (workers[calls[c].worker].pc = "done" /\ ~workers[calls[c].worker].error)
                => (calls[c].state = "resolved" /\ backendFreeCalls >= 1)

\* C25: with the workers and the completion callbacks scheduled fairly, the
\* promise of every init() and dispose() call is eventually resolved or
\* rejected: again and again no promise is pending, and a settled promise
\* stays settled (C12).
C25_EveryCallSettles ==
    []<>(\A c \in DOMAIN calls : calls[c].state # "pending")

\* as many calls as the bound allows were made, at least two of them with a
\* worker, and every promise is settled
C25_Witness ==
    /\ Len(calls) = MaxBackendCalls
    /\ Cardinality({c \in DOMAIN calls : calls[c].worker # 0}) >= 2
    /\ \A c \in DOMAIN calls : calls[c].state # "pending"
    /\ \A w \in DOMAIN workers : workers[w].pc = "done"

(***************************************************************************)
(* Further properties of AddonVisionModel (checked under SpecVision).      *)
(***************************************************************************)

\* C13: init() on a Loaded model resolves without calling clip_init or any
\* other backend function and leaves the object, its context handle and its
\* capabilities as they were; over the life of one instance at most one
\* context is ever stored by a successful load.
C13_InitWhenLoadedNoOp ==
    /\ [](Cardinality(loadedCtx) <= 1)
    /\ [][(Loaded /\ vLast'.op = "init")
            => /\ vLast'.result = "resolved"
               /\ vLast'.backend = {}
               /\ vision' = vision
               /\ clipInitCalls' = clipInitCalls
               /\ created' = created
               /\ loadedCtx' = loadedCtx]_vars

\* the model was loaded by one init() and a later init() resolved with no
\* backend call
C13_Witness ==
    /\ Loaded /\ clipInitCalls = 1 /\ Cardinality(loadedCtx) = 1
    /\ vLast.op = "init" /\ vLast.result = "resolved" /\ vLast.backend = {}

\* the result of an init() during which context creation failed: clip_init
\* returned no vision context, or threw
CreationFailed(last) ==
    /\ last.op = "init" /\ "clip_init" \in last.backend
    /\ "clip_get_image_size" \notin last.backend

\* C14: when context creation fails during init(), the promise is rejected
\* with a load error, every context clip_init handed out in that call has
\* been released once, and the object is as before: no context, not loaded,
\* not disposed, capabilities unchanged; and every init() on a model that is
\* neither loaded nor disposed, a failed init() before it or not, calls
\* clip_init again.
C14_FailedLoadLeavesUninitialized ==
    /\ [][CreationFailed(vLast')
            => /\ vLast'.result \in {ErrLoadFailed, ErrBackendThrew}
               /\ vision' = vision
               /\ vision'.clip_context = NULL
               /\ ~vision'.visionModelLoaded /\ ~vision'.disposed
               /\ loadedCtx' = loadedCtx
               /\ \A h \in created' \ created :
                     freedByLoad'[h] = 1 /\ freedByDispose'[h] = 0]_vars
    /\ [][(vLast'.op = "init" /\ clipAvailable
              /\ ~vision.visionModelLoaded /\ ~vision.disposed)
            => "clip_init" \in vLast'.backend]_vars

\* a second init() has failed after a failed first one, and the audio
\* context clip_init had created was released
C14_Witness ==
    /\ CreationFailed(vLast) /\ vLast.result = ErrLoadFailed
    /\ clipInitCalls >= 2 /\ loadedCtx = {}
    /\ \E h \in created : freedByLoad[h] = 1
    /\ ~vision.visionModelLoaded /\ ~vision.disposed /\ vision.clip_context = NULL

\* C18: processImage never hands back an empty or invalid embedding: when it
\* succeeds the backend produced an image, sizes above zero and a successful
\* encode, and the embedding has embed_dim * n_tokens_out > 0 entries; when
\* preprocessing yields no image the call fails with the no-images error;
\* when a size is not positive or the encode fails it fails with the encode
\* error; a failed call returns no embedding.
C18_NoEmptyEmbedding ==
    vLast.op = "processImage" =>
       LET be == vLast.be
           reached == "clip_image_u8_init" \in vLast.backend
       IN /\ vLast.result = "ok" =>
                /\ reached /\ be.nImages >= 1 /\ be.firstImage /\ be.encode
                /\ be.embed_dim > 0 /\ be.n_tokens_out > 0
                /\ vLast.len = be.embed_dim * be.n_tokens_out
                /\ vLast.len > 0
          /\ vLast.result # "ok" => vLast.len = 0
          /\ (reached /\ be.preprocess /\ be.nImages < 1) => vLast.result = ErrNoImages
          /\ (reached /\ be.firstImage
                 /\ (be.embed_dim <= 0 \/ be.n_tokens_out <= 0 \/ ~be.encode))
               => vLast.result = ErrEncode

\* on a Loaded model the backend gave positive sizes and then failed to
\* encode, and the call failed with the encode error
C18_Witness ==
    /\ Loaded /\ vLast.op = "processImage"
    /\ vLast.be.firstImage /\ vLast.be.embed_dim > 0 /\ vLast.be.n_tokens_out > 0
    /\ ~vLast.be.encode
    /\ vLast.result = ErrEncode /\ vLast.len = 0

\* the descriptor a model has before any load: what its constructor's
\* detectVisionCapabilities() call, made with no context, left
DefaultVisionCaps == ConstructedVision(clipAvailable).visionCaps

\* C19: getVisionCapabilities() returns the object's descriptor: the default
\* one while no load has succeeded, and after a successful load the default
\* one with the maximum resolution the backend reported (when it reported a
\* positive size); the call changes neither the descriptor nor any other
\* field of the object, so a call repeated with no other call between
\* returns the same.
C19_CapabilitiesSnapshot ==
    /\ [](vLast.op = "getVisionCapabilities" =>
            /\ vLast.caps = vision.visionCaps
            /\ loadedCtx = {} => vLast.caps = DefaultVisionCaps
            /\ Loaded =>
                 vLast.caps = [DefaultVisionCaps EXCEPT
                                 !.maxResolution =
                                    IF imageSize > 0
                                    THEN [width |-> imageSize, height |-> imageSize]
                                    ELSE @])
    /\ [][vLast'.op = "getVisionCapabilities" =>
            /\ vision' = vision
            /\ vLast.op = "getVisionCapabilities" => vLast'.caps = vLast.caps]_vars

\* on a Loaded model whose backend reported an image size the descriptor
\* returned carries that size
C19_Witness ==
    /\ Loaded /\ imageSize > 0
    /\ vLast.op = "getVisionCapabilities"
    /\ vLast.caps.maxResolution = [width |-> imageSize, height |-> imageSize]
    /\ vLast.caps # DefaultVisionCaps

\* C21: in a build without CLIP every init() is rejected, the model is never
\* loaded and holds no context, no backend function is ever called, and no
\* call returns an embedding.
C21_UnavailableFailsFast ==
    ~clipAvailable =>
       /\ ~vision.visionModelLoaded /\ vision.clip_context = NULL
       /\ loadedCtx = {} /\ created = {} /\ clipInitCalls = 0
       /\ vLast.backend = {}
       /\ vLast.op = "init" => vLast.result \in {ErrLoadFailed, ErrDisposed}
       /\ vLast.result # "ok" /\ vLast.len = 0

\* in a build without CLIP an init() was rejected with the load error
C21_Witness ==
    /\ ~clipAvailable
    /\ vLast.op = "init" /\ vLast.result = ErrLoadFailed
    /\ ~vision.disposed

\* C23 (as claimed): a processImage call that gets as far as building the
\* image has a positive width and height and a buffer of at least
\* width * height * channels bytes for the channel count it uses, so every
\* read is inside the buffer; a call with an empty buffer or a width or
\* height that is not positive reaches no backend function.
C23_NoOutOfBoundsRead ==
    vLast.op = "processImage" =>
       /\ "clip_build_img_from_pixels" \in vLast.backend =>
             /\ vLast.args.width > 0 /\ vLast.args.height > 0
             /\ vLast.args.width * vLast.args.height * vLast.channels <= vLast.args.len
       /\ (vLast.args.len = 0 \/ vLast.args.width <= 0 \/ vLast.args.height <= 0)
             => vLast.backend = {}

\* C26: processImage, whether it succeeds or fails, and
\* getVisionCapabilities leave visionModelLoaded, disposed, clip_context and
\* the capabilities as they were and free no context; a Loaded model stops
\* being Loaded only in a dispose() call or in the destructor, which calls
\* dispose().
C26_QueriesKeepLifecycle ==
    /\ [][vLast'.op \in {"processImage", "getVisionCapabilities"}
            => /\ vision' = vision
               /\ freedByDispose' = freedByDispose /\ freedByLoad' = freedByLoad
               /\ loadedCtx' = loadedCtx]_vars
    /\ [][(Loaded /\ ~Loaded') => vLast'.op \in {"dispose", "destructor"}]_vars

\* a processImage call failed in preprocessing and the model is still Loaded
C26_Witness ==
    /\ Loaded /\ vision.clip_context # NULL
    /\ vLast.op = "processImage" /\ vLast.result = ErrPreprocess

\* C27: every processImage call frees each temporary object it created
\* exactly once before it returns: the u8 image and the f32 batch are each
\* created at most once, and freed as often as created, on every exit path.
C27_TemporariesFreedOnce ==
    vLast.op = "processImage" =>
       /\ vLast.tmp.u8Init \in 0..1 /\ vLast.tmp.batchInit \in 0..1
       /\ vLast.tmp.u8Free = vLast.tmp.u8Init
       /\ vLast.tmp.batchFree = vLast.tmp.batchInit
       /\ vLast.result \in {"ok", ErrNoImages, ErrFirstImage, ErrEncode}
             => (vLast.tmp.u8Init = 1 /\ vLast.tmp.batchInit = 1)
       /\ vLast.result = ErrPreprocess => vLast.tmp.u8Init = 1

\* a processImage call created the image and the batch, found no first
\* image in the batch, and freed both
C27_Witness ==
    /\ vLast.op = "processImage" /\ vLast.result = ErrFirstImage
    /\ vLast.tmp = [u8Init |-> 1, u8Free |-> 1, batchInit |-> 1, batchFree |-> 1]

(***************************************************************************)
(* Properties of the pixel conversion (checked under SpecPixels). Pixel i  *)
(* of an image counts from 0; its bytes are those at i * channels + 1 and  *)
(* on in the caller's buffer and at 3 * i + 1 .. 3 * i + 3 in the result.  *)
(***************************************************************************)

\* the pixels of the image px
PixelsOf(image) == 0..(image.width * image.height - 1)

\* the direct application of the conversion produced an image
Converted == pxOut.op = "loadImageFromData" /\ pxOut.ok

\* C15 (as claimed): the image processImage(pixelBytes, width, height,
\* channels) hands to the backend is the 3-channel conversion of the buffer
\* read with the declared number of channels per pixel, for every declared
\* channel count from 1 to 4.
C15_DeclaredChannelsApplied ==
    (pxOut.op = "processImage" /\ px.channels \in 1..4
        /\ "clip_build_img_from_pixels" \in vLast.backend)
      => /\ pxOut.ok
         /\ pxOut.pixels = loadImageFromData(px.data, px.width, px.height,
                                             px.channels, TRUE, 0).pixels

\* C16 (as claimed): for a 2-channel image the conversion takes red from the
\* first channel of each pixel and both green and blue from the second.
C16_TwoChannelRule ==
    (Converted /\ px.channels = 2)
      => \A i \in PixelsOf(px) :
            /\ pxOut.pixels[3 * i + 1] = px.data[2 * i + 1]
            /\ pxOut.pixels[3 * i + 2] = px.data[2 * i + 2]
            /\ pxOut.pixels[3 * i + 3] = px.data[2 * i + 2]

\* C17: for an image of 1, 3 or at least 4 channels the conversion, when it
\* builds an image, reads no byte outside the buffer and yields exactly
\* width * height * 3 bytes at the original width and height: with one
\* channel every pixel is its single value three times, with three channels
\* the bytes are those of the buffer, with four or more every pixel is its
\* first three channels.
C17_ConversionRule ==
    (pxOut.op = "loadImageFromData" /\ px.channels # 2)
      => /\ ~pxOut.oob /\ ~pxOut.crashed
         /\ pxOut.ok =>
              /\ Len(pxOut.pixels) = px.width * px.height * 3
              /\ pxOut.nx = px.width /\ pxOut.ny = px.height
              /\ px.channels = 1 =>
                    \A i \in PixelsOf(px) : \A k \in 1..3 :
                       pxOut.pixels[3 * i + k] = px.data[i + 1]
              /\ px.channels = 3 => pxOut.pixels = px.data
              /\ px.channels >= 4 =>
                    \A i \in PixelsOf(px) : \A k \in 1..3 :
                       pxOut.pixels[3 * i + k] = px.data[i * px.channels + k]

\* a 2 x 2 image of five channels whose bytes differ was converted
C17_Witness ==
    /\ Converted /\ px.channels = 5 /\ px.width = 2 /\ px.height = 2
    /\ \A i \in 1..Len(px.data) : \A j \in 1..Len(px.data) :
          i # j => px.data[i] # px.data[j]
    /\ Len(pxOut.pixels) = 12

(***************************************************************************)
(* Properties of the audio model's setters (checked under SpecAudio).      *)
(***************************************************************************)

\* C20: on a model that is not disposed, setSampleRate(rate) with a rate
\* outside the capabilities' supportedSampleRates fails with ValidationError
\* and leaves every field of the object (sampleRate, currentLanguage, the
\* lifecycle fields) as it was; with a rate of the set it stores that rate
\* in sampleRate and changes no other field; neither calls the backend.
C20_SetSampleRateValidates ==
    [][(aLast'.op = "setSampleRate" /\ ~audio.disposed)
         => /\ aLast'.backend = {}
            /\ IF aLast'.rate \notin audio.audioCaps.supportedSampleRates
               THEN /\ aLast'.result = ValidationError
                    /\ audio' = audio
               ELSE /\ aLast'.result = "undefined"
                    /\ audio' = [audio EXCEPT !.sampleRate = aLast'.rate]]_vars

\* sampleRate and language had been configured, and setSampleRate(99999)
\* failed leaving them in place
C20_Witness ==
    /\ aLast.op = "setSampleRate" /\ aLast.rate = 99999
    /\ aLast.result = ValidationError
    /\ audio.sampleRate = 44100 /\ audio.currentLanguage = "ja"
    /\ ~audio.disposed

\* C28 (as claimed): in every state of an audio model, the one before any
\* setter call included, sampleRate is one of the capabilities'
\* supportedSampleRates and currentLanguage one of their supportedLanguages.
C28_ConfigurationSupported ==
    /\ audio.sampleRate \in audio.audioCaps.supportedSampleRates
    /\ audio.currentLanguage \in audio.audioCaps.supportedLanguages

====
